---------------------------- MODULE Spec2Model ----------------------------
(***************************************************************************)
(* Model of the list-based containers of the Data-Structures repository:  *)
(*   Python/queues/queue/qqueue.py  (class Queue, QueueError)              *)
(*   Python/stack/stack.py          (class Stack, StackError)              *)
(*   Python/queues/priority_queue/pqueue.py  (class PriorityQueue)         *)
(*   Python/queues/qqueue.py        (class ListQueue)                      *)
(*                                                                         *)
(* The model follows one container object from the constructor call that  *)
(* makes it: objects share no state, so one object's life is the general  *)
(* case.  The behaviour starts with the one constructor call; when that   *)
(* call raises there is no object and nothing more can be called.         *)
(* Every method is one atomic action: Python runs it single-threaded.     *)
(* Each method is first written as a pure operator from the receiver and  *)
(* the arguments to an outcome [exc, ret, self]; the action then stores   *)
(* the outcome.                                                           *)
(***************************************************************************)
EXTENDS Integers, Sequences, FiniteSets, TLC

(***************************************************************************)
(* Bounds of the exploration.                                              *)
(***************************************************************************)
\* number of distinct element values offered to enqueue / push
NumElems == 2
\* largest integer maxlen offered to the constructors
MaxCap == 2
\* longest iterable offered to from_iterable
MaxIter == 3
\* successful insertions and removals explored on one object
MaxHist == 4
\* longest list a container is compared with
MaxOther == 2

(***************************************************************************)
(* Python values.  A value carries its type, so that None, the integer 0  *)
(* and the float 0.0 are different values with their own truthiness.       *)
(***************************************************************************)
None == [type |-> "NoneType", val |-> 0]

PyInt(n) == [type |-> "int", val |-> n]

\* a float holding a whole number (1., -1., 0.)
PyFloat(n) == [type |-> "float", val |-> n]

PyBool(b) == [type |-> "bool", val |-> IF b THEN 1 ELSE 0]

\* a list (or an iterator over one) passed where None may be passed too
PyList(items) == [type |-> "list", val |-> items]

\* bool(x) for None and numbers: `if maxlen:` / `if self.maxlen and ...`
truthy(x) == x.type # "NoneType" /\ x.val # 0

\* isinstance(x, int)
isinstance_int(x) == x.type \in {"int", "bool"}

Elems == {PyInt(n) : n \in 1..NumElems}

\* the maxlen arguments tried: None, integers from -1 up, whole floats
MaxlenArgs ==
    {None} \cup {PyInt(n) : n \in -1..MaxCap} \cup {PyFloat(n) : n \in -1..1}

RECURSIVE SeqsUpTo(_)
SeqsUpTo(n) ==
    IF n = 0 THEN {<<>>}
    ELSE LET shorter == SeqsUpTo(n - 1)
         IN  shorter \cup {Append(s, e) : s \in {t \in shorter : Len(t) = n - 1},
                                          e \in Elems}

\* the iterables tried: finite lists of elements
Iterables == SeqsUpTo(MaxIter)

\* the priorities tried: two integers, the smaller offered second, and a float
Priorities == {PyInt(5), PyInt(1), PyFloat(1)}

\* the (element, priority) lists tried by PriorityQueue.from_iterable
RECURSIVE PairSeqsUpTo(_)
PairSeqsUpTo(n) ==
    IF n = 0 THEN {<<>>}
    ELSE LET shorter == PairSeqsUpTo(n - 1)
         IN  shorter \cup {Append(s, <<e, p>>) :
                              s \in {t \in shorter : Len(t) = n - 1},
                              e \in Elems, p \in Priorities}

PairIterables == PairSeqsUpTo(MaxIter)

\* the contents of the operands tried by the comparisons
CompareArgs == SeqsUpTo(MaxOther)

\* the indices tried by container[index]
Indices == {-1, 0, 1}

(***************************************************************************)
(* Outcomes of a call.                                                     *)
(***************************************************************************)
Return(value, self) == [exc |-> "none", ret |-> value, self |-> self]

Raise(error, self) == [exc |-> error, ret |-> None, self |-> self]

(***************************************************************************)
(* Built-in list operations used by the classes.                           *)
(***************************************************************************)
\* list.pop(0): IndexError on an empty list, else removes and returns l[0]
list_pop_first(l) ==
    IF Len(l) = 0 THEN [exc |-> "IndexError", ret |-> None, list |-> l]
    ELSE [exc |-> "none", ret |-> Head(l), list |-> Tail(l)]

\* list.pop(): IndexError on an empty list, else removes and returns l[-1]
list_pop_last(l) ==
    IF Len(l) = 0 THEN [exc |-> "IndexError", ret |-> None, list |-> l]
    ELSE [exc |-> "none", ret |-> l[Len(l)], list |-> SubSeq(l, 1, Len(l) - 1)]

\* l[index] for an integer index, negative indices counting from the end
list_getitem(l, index) ==
    IF index >= 0 /\ index < Len(l) THEN [exc |-> "none", ret |-> l[index + 1]]
    ELSE IF index < 0 /\ -index <= Len(l)
         THEN [exc |-> "none", ret |-> l[Len(l) + index + 1]]
         ELSE [exc |-> "IndexError", ret |-> None]

\* range(n): TypeError unless n is an integer; empty for n <= 0
range(n) ==
    IF ~isinstance_int(n) THEN [exc |-> "TypeError", len |-> 0]
    ELSE [exc |-> "none", len |-> IF n.val > 0 THEN n.val ELSE 0]

\* the elements zip(iterable, range(n)) yields: it stops at the shorter one
zip_first(iterable, n) ==
    SubSeq(iterable, 1, IF Len(iterable) < n THEN Len(iterable) ELSE n)

\* list(iter(iterable)): a new list of the items the iterator yields
RECURSIVE list_iter(_)
list_iter(iterable) ==
    IF iterable = <<>> THEN <<>>
    ELSE <<Head(iterable)>> \o list_iter(Tail(iterable))

\* reversed(l): the items of l from the last to the first
RECURSIVE list_reversed(_)
list_reversed(l) ==
    IF l = <<>> THEN <<>>
    ELSE <<l[Len(l)]>> \o list_reversed(SubSeq(l, 1, Len(l) - 1))

\* a == b for lists: same length and equal items
list_eq(a, b) ==
    Len(a) = Len(b) /\ \A i \in 1..Len(a) : a[i] = b[i]

\* a < b for lists of numbers: decided by the first pair of items that
\* differ; when there is none the shorter list is the smaller
RECURSIVE list_lt(_, _)
list_lt(a, b) ==
    IF a = <<>> \/ b = <<>> THEN Len(a) < Len(b)
    ELSE IF Head(a) # Head(b) THEN Head(a).val < Head(b).val
         ELSE list_lt(Tail(a), Tail(b))

(***************************************************************************)
(* class Queue                                                             *)
(***************************************************************************)
\* Queue.__init__(maxlen)
Queue_init(maxlen) ==
    IF truthy(maxlen) /\ ~isinstance_int(maxlen)
    THEN Raise("TypeError", None)
    ELSE IF truthy(maxlen) /\ maxlen.val < 0
         THEN Raise("ValueError", None)
         ELSE Return(None, [queue |-> <<>>, maxlen |-> maxlen])

\* Queue.__len__
Queue_len(self) == Len(self.queue)

\* Queue.__bool__
Queue_bool(self) == self.queue # <<>>

\* Queue.empty
Queue_empty(self) == ~Queue_bool(self)

\* Queue.__getitem__(index)
Queue_getitem(self, index) ==
    LET r == list_getitem(self.queue, index)
    IN  IF r.exc = "IndexError" THEN Raise("IndexError", self)
        ELSE Return(r.ret, self)

\* Queue.first
Queue_first(self) == Queue_getitem(self, 0)

\* Queue.__eq__ comparing the lengths only: len(self) == len(other)
Queue_eq_by_len(self, other) == Len(self.queue) = Len(other.val)

\* Queue.__eq__(other): `self.queue == other`.  For a list it is the list
\* comparison; for a Queue, list.__eq__ gives NotImplemented and Python
\* asks the reflected other.__eq__(self.queue), again a list comparison.
Queue_eq(self, other) ==
    IF other.type = "list" THEN list_eq(self.queue, other.val)
    ELSE list_eq(other.val, self.queue)

\* Queue.__lt__(other): `self.queue < other`.  For a Queue, list.__lt__
\* gives NotImplemented and Python asks the reflected
\* other.__gt__(self.queue), which total_ordering derives from __lt__ as
\* `not other < list and other != list`.
Queue_lt(self, other) ==
    IF other.type = "list" THEN list_lt(self.queue, other.val)
    ELSE ~list_lt(other.val, self.queue) /\ ~list_eq(other.val, self.queue)

\* Queue.__ge__(other), derived by total_ordering: not self < other
Queue_ge(self, other) == ~Queue_lt(self, other)

\* Queue.__iter__(): the items the generator yields before it is exhausted
Queue_iter(self) == list_iter(self.queue)

\* Queue.dequeue returning the head without removing it: return self[0]
Queue_dequeue_keeps(self) ==
    IF Queue_empty(self) THEN Raise("QueueError", self)
    ELSE Return(self.queue[1], self)

\* Queue.dequeue taking the rear element: self._queue.pop()
Queue_dequeue_rear(self) ==
    LET r == list_pop_last(self.queue)
    IN  IF r.exc = "IndexError" THEN Raise("QueueError", self)
        ELSE Return(r.ret, [self EXCEPT !.queue = r.list])

\* Queue.dequeue
Queue_dequeue(self) ==
    LET r == list_pop_first(self.queue)
    IN  IF r.exc = "IndexError" THEN Raise("QueueError", self)
        ELSE Return(r.ret, [self EXCEPT !.queue = r.list])

\* Queue.enqueue testing len(self) > self.maxlen: full one element late
Queue_enqueue_late(self, element) ==
    IF self.maxlen # None /\ Queue_len(self) > self.maxlen.val
    THEN Raise("QueueError", self)
    ELSE Return(None, [self EXCEPT !.queue = Append(@, element)])

\* Queue.enqueue testing `self.maxlen and ...`: maxlen 0 counts as unset
Queue_enqueue_falsy(self, element) ==
    IF truthy(self.maxlen) /\ Queue_len(self) >= self.maxlen.val
    THEN Raise("QueueError", self)
    ELSE Return(None, [self EXCEPT !.queue = Append(@, element)])

\* Queue.enqueue inserting at the head: self._queue.insert(0, element)
Queue_enqueue_head(self, element) ==
    IF self.maxlen # None /\ Queue_len(self) >= self.maxlen.val
    THEN Raise("QueueError", self)
    ELSE Return(None, [self EXCEPT !.queue = <<element>> \o @])

\* Queue.enqueue(element)
Queue_enqueue(self, element) ==
    IF self.maxlen # None /\ Queue_len(self) >= self.maxlen.val
    THEN Raise("QueueError", self)
    ELSE Return(None, [self EXCEPT !.queue = Append(@, element)])

\* the loop `for elem in elems: queue.enqueue(elem)`; an exception ends it.
\* done collects the elements whose enqueue call has returned.
RECURSIVE Queue_enqueue_all(_, _, _)
Queue_enqueue_all(self, elems, done) ==
    IF elems = <<>> THEN [exc |-> "none", self |-> self, done |-> done]
    ELSE LET r == Queue_enqueue(self, Head(elems))
         IN  IF r.exc # "none"
             THEN [exc |-> r.exc, self |-> r.self, done |-> done]
             ELSE Queue_enqueue_all(r.self, Tail(elems),
                                    Append(done, Head(elems)))

\* Queue.from_iterable enqueueing the whole iterable whatever maxlen is, so
\* that a longer iterable overflows the queue
Queue_from_iterable_whole(iterable, maxlen) ==
    LET made == Queue_init(maxlen)
        fail(error) == [exc |-> error, self |-> None, done |-> <<>>]
    IN  IF made.exc # "none" THEN fail(made.exc)
        ELSE IF iterable = <<>>
             THEN [exc |-> "none", self |-> made.self, done |-> <<>>]
        ELSE LET r == Queue_enqueue_all(made.self, iterable, <<>>)
             IN  IF r.exc # "none" THEN fail(r.exc) ELSE r

\* Queue.from_iterable(iterable, maxlen); self of the outcome is the new
\* queue, done the elements it enqueued
Queue_from_iterable(iterable, maxlen) ==
    LET made == Queue_init(maxlen)
        fail(error) == [exc |-> error, self |-> None, done |-> <<>>]
    IN  IF made.exc # "none" THEN fail(made.exc)
        ELSE IF iterable = <<>>
             THEN [exc |-> "none", self |-> made.self, done |-> <<>>]
        ELSE IF maxlen # None
             THEN LET rng == range(maxlen)
                  IN  IF rng.exc # "none" THEN fail(rng.exc)
                      ELSE LET r == Queue_enqueue_all(made.self,
                                        zip_first(iterable, rng.len), <<>>)
                           IN  IF r.exc # "none" THEN fail(r.exc) ELSE r
             ELSE LET r == Queue_enqueue_all(made.self, iterable, <<>>)
                  IN  IF r.exc # "none" THEN fail(r.exc) ELSE r

(***************************************************************************)
(* class Stack                                                             *)
(***************************************************************************)
\* Stack.__init__(maxlen)
Stack_init(maxlen) ==
    IF truthy(maxlen) /\ ~isinstance_int(maxlen)
    THEN Raise("TypeError", None)
    ELSE IF truthy(maxlen) /\ maxlen.val < 0
         THEN Raise("ValueError", None)
         ELSE Return(None, [stack |-> <<>>, maxlen |-> maxlen])

\* Stack.__len__
Stack_len(self) == Len(self.stack)

\* Stack.__bool__
Stack_bool(self) == self.stack # <<>>

\* Stack.empty
Stack_empty(self) == ~Stack_bool(self)

\* Stack.__getitem__(index)
Stack_getitem(self, index) ==
    LET r == list_getitem(self.stack, index)
    IN  IF r.exc = "IndexError" THEN Raise("IndexError", self)
        ELSE Return(r.ret, self)

\* Stack.__eq__(other): `self.stack == other`, as Queue.__eq__
Stack_eq(self, other) ==
    IF other.type = "list" THEN list_eq(self.stack, other.val)
    ELSE list_eq(other.val, self.stack)

\* Stack.__lt__(other): `self.stack < other`, as Queue.__lt__
Stack_lt(self, other) ==
    IF other.type = "list" THEN list_lt(self.stack, other.val)
    ELSE ~list_lt(other.val, self.stack) /\ ~list_eq(other.val, self.stack)

\* Stack.__ge__(other), derived by total_ordering: not self < other
Stack_ge(self, other) == ~Stack_lt(self, other)

\* Stack.__iter__ yielding from the top of the stack downwards
Stack_iter_from_top(self) == list_reversed(self.stack)

\* Stack.__iter__(): the items the generator yields before it is exhausted
Stack_iter(self) == list_iter(self.stack)

\* Stack.peak returning self.stack[0], the bottom
Stack_peak_bottom(self) ==
    IF self.stack # <<>> THEN Return(list_getitem(self.stack, 0).ret, self)
    ELSE Return(None, self)

\* Stack.peak taking the element off the stack: return self._stack.pop()
Stack_peak_pops(self) ==
    IF Stack_empty(self) THEN Return(None, self)
    ELSE LET r == list_pop_last(self.stack)
         IN  Return(r.ret, [self EXCEPT !.stack = r.list])

\* Stack.peak
Stack_peak(self) ==
    IF self.stack # <<>> THEN Return(list_getitem(self.stack, -1).ret, self)
    ELSE Return(None, self)

\* Stack.pop without the emptiness test: list.pop raises IndexError
Stack_pop_unchecked(self) ==
    LET r == list_pop_last(self.stack)
    IN  IF r.exc # "none" THEN Raise(r.exc, self)
        ELSE Return(r.ret, [self EXCEPT !.stack = r.list])

\* Stack.pop taking the bottom element: self._stack.pop(0)
Stack_pop_bottom(self) ==
    IF Stack_empty(self) THEN Raise("StackError", self)
    ELSE LET r == list_pop_first(self.stack)
         IN  Return(r.ret, [self EXCEPT !.stack = r.list])

\* Stack.pop
Stack_pop(self) ==
    IF Stack_empty(self) THEN Raise("StackError", self)
    ELSE LET r == list_pop_last(self.stack)
         IN  Return(r.ret, [self EXCEPT !.stack = r.list])

\* Stack.push inserting at the bottom: self._stack.insert(0, element)
Stack_push_bottom(self, element) ==
    IF truthy(self.maxlen) /\ Stack_len(self) >= self.maxlen.val
    THEN Raise("StackError", self)
    ELSE Return(None, [self EXCEPT !.stack = <<element>> \o @])

\* Stack.push keeping in maxlen the capacity that is left
Stack_push_countdown(self, element) ==
    IF truthy(self.maxlen) /\ Stack_len(self) >= self.maxlen.val
    THEN Raise("StackError", self)
    ELSE Return(None, [self EXCEPT !.stack = Append(@, element),
                                   !.maxlen = IF truthy(@)
                                              THEN [@ EXCEPT !.val = @ - 1]
                                              ELSE @])

\* Stack.push(element)
Stack_push(self, element) ==
    IF truthy(self.maxlen) /\ Stack_len(self) >= self.maxlen.val
    THEN Raise("StackError", self)
    ELSE Return(None, [self EXCEPT !.stack = Append(@, element)])

\* the loop `for elem in elems: stack.push(elem)`; an exception ends it.
\* done collects the elements whose push call has returned.
RECURSIVE Stack_push_all(_, _, _)
Stack_push_all(self, elems, done) ==
    IF elems = <<>> THEN [exc |-> "none", self |-> self, done |-> done]
    ELSE LET r == Stack_push(self, Head(elems))
         IN  IF r.exc # "none"
             THEN [exc |-> r.exc, self |-> r.self, done |-> done]
             ELSE Stack_push_all(r.self, Tail(elems),
                                 Append(done, Head(elems)))

\* Stack.from_iterable(iterable, maxlen); self of the outcome is the new
\* stack, done the elements it pushed
Stack_from_iterable(iterable, maxlen) ==
    LET made == Stack_init(maxlen)
        fail(error) == [exc |-> error, self |-> None, done |-> <<>>]
    IN  IF made.exc # "none" THEN fail(made.exc)
        ELSE IF iterable = <<>>
             THEN [exc |-> "none", self |-> made.self, done |-> <<>>]
        ELSE IF maxlen # None
             THEN LET rng == range(maxlen)
                  IN  IF rng.exc # "none" THEN fail(rng.exc)
                      ELSE LET r == Stack_push_all(made.self,
                                        zip_first(iterable, rng.len), <<>>)
                           IN  IF r.exc # "none" THEN fail(r.exc) ELSE r
             ELSE LET r == Stack_push_all(made.self, iterable, <<>>)
                  IN  IF r.exc # "none" THEN fail(r.exc) ELSE r

(***************************************************************************)
(* class PriorityQueue                                                     *)
(***************************************************************************)
\* PriorityQueue.check_priority(priority)
PriorityQueue_check_priority(priority) ==
    IF ~isinstance_int(priority) THEN Raise("TypeError", None)
    ELSE Return(None, None)

\* PriorityQueue.__init__(maxlen).  Its first statement reads `iterable`,
\* which is no parameter and is assigned further down, so it is an unbound
\* local: the read raises UnboundLocalError before anything is stored.
PriorityQueue_init(maxlen) == Raise("UnboundLocalError", None)

\* PriorityQueue.from_iterable(iterable, maxlen): it starts with cls(); were
\* a queue made, the first entry would be checked and then passed to
\* enqueue(element, priority), which takes one argument (TypeError)
PriorityQueue_from_iterable(iterable, maxlen) ==
    LET made == PriorityQueue_init(None)
    IN  IF made.exc # "none" THEN made
        ELSE IF iterable = <<>> THEN made
        ELSE Raise("TypeError", None)

(***************************************************************************)
(* class ListQueue                                                         *)
(***************************************************************************)
\* ListQueue.__init__(iterable), iterable a list or None
ListQueue_init(iterable) ==
    Return(None, [queue |-> list_iter(IF iterable.type = "NoneType" THEN <<>>
                                      ELSE iterable.val)])

\* ListQueue.__bool__
ListQueue_bool(self) == self.queue # <<>>

\* ListQueue.__len__
ListQueue_len(self) == Len(self.queue)

\* ListQueue.is_empty
ListQueue_is_empty(self) == ~ListQueue_bool(self)

\* ListQueue.__reversed__ through list.reverse(), which reverses in place
\* and returns None: ListQueue(self.queue.reverse())
ListQueue_reversed_in_place(self) == ListQueue_init(None)

\* ListQueue.__reversed__: self of the outcome is the new ListQueue
ListQueue_reversed(self) ==
    ListQueue_init(PyList(list_reversed(self.queue)))

\* ListQueue.first without the emptiness test: return self.queue[0]
ListQueue_first_unchecked(self) ==
    LET r == list_getitem(self.queue, 0)
    IN  IF r.exc # "none" THEN Raise(r.exc, self) ELSE Return(r.ret, self)

\* ListQueue.first
ListQueue_first(self) ==
    IF self.queue # <<>> THEN Return(list_getitem(self.queue, 0).ret, self)
    ELSE Return(None, self)

\* ListQueue.dequeue: the popped element is dropped, the call returns None
ListQueue_dequeue(self) ==
    LET r == list_pop_first(self.queue)
    IN  IF r.exc # "none" THEN Raise(r.exc, self)
        ELSE Return(None, [self EXCEPT !.queue = r.list])

\* ListQueue.enqueue(element)
ListQueue_enqueue(self, element) ==
    Return(None, [self EXCEPT !.queue = Append(@, element)])

(***************************************************************************)
(* State.                                                                  *)
(***************************************************************************)
VARIABLES
    cls,      \* class of the container, "none" before it is made
    queue,    \* Queue._queue or ListQueue._queue (<<>> for a Stack)
    stack,    \* Stack._stack (<<>> unless the container is a Stack)
    maxlen,   \* _maxlen of the container
    op,       \* name of the last call, "none" before the constructor call
    arg,      \* arguments of the last call
    ret,      \* value the last call returned (None when it raised)
    exc,      \* exception the last call raised, "none" when it returned
    hist      \* insertions and removals that returned, since construction

vars == <<cls, queue, stack, maxlen, op, arg, ret, exc, hist>>

\* the receiver of a Queue method / of a Stack method
QueueSelf == [queue |-> queue, maxlen |-> maxlen]

StackSelf == [stack |-> stack, maxlen |-> maxlen]

ListQueueSelf == [queue |-> queue]

NoArgs ==
    [element |-> None, index |-> 0, iterable |-> <<>>, maxlen |-> None,
     other |-> None]

\* a call that returned: its name, the element inserted or returned, and the
\* contents it found
Event(name, value, before) == [op |-> name, val |-> value, pre |-> before]

\* the history entries of the calls name(e) for the elements e of done
Events(name, done) ==
    [i \in 1..Len(done) |-> Event(name, done[i], SubSeq(done, 1, i - 1))]

\* no container has been constructed yet
Init ==
    /\ cls = "none"
    /\ queue = <<>>
    /\ stack = <<>>
    /\ maxlen = None
    /\ op = "none"
    /\ arg = NoArgs
    /\ ret = None
    /\ exc = "none"
    /\ hist = <<>>

(***************************************************************************)
(* Calls on class Queue.                                                   *)
(***************************************************************************)
\* q = Queue(m): there is a queue only when the constructor returns
CallQueueInit(m) ==
    LET r == Queue_init(m)
    IN  /\ op = "none"
        /\ op' = "Queue.__init__"
        /\ arg' = [NoArgs EXCEPT !.maxlen = m]
        /\ exc' = r.exc
        /\ ret' = None
        /\ IF r.exc = "none"
           THEN /\ cls' = "Queue"
                /\ queue' = r.self.queue
                /\ maxlen' = r.self.maxlen
                /\ stack' = <<>>
                /\ hist' = <<>>
           ELSE UNCHANGED <<cls, queue, stack, maxlen, hist>>

\* q = Queue.from_iterable(S, m)
CallQueueFromIterable(S, m) ==
    LET r == Queue_from_iterable(S, m)
    IN  /\ op = "none"
        /\ op' = "Queue.from_iterable"
        /\ arg' = [NoArgs EXCEPT !.iterable = S, !.maxlen = m]
        /\ exc' = r.exc
        /\ ret' = None
        /\ IF r.exc = "none"
           THEN /\ cls' = "Queue"
                /\ queue' = r.self.queue
                /\ maxlen' = r.self.maxlen
                /\ stack' = <<>>
                /\ hist' = Events("enqueue", r.done)
           ELSE UNCHANGED <<cls, queue, stack, maxlen, hist>>

\* q.enqueue(element)
CallEnqueue(element) ==
    LET r == Queue_enqueue(QueueSelf, element)
    IN  /\ cls = "Queue"
        /\ r.exc = "none" => Len(hist) < MaxHist
        /\ op' = "enqueue"
        /\ arg' = [NoArgs EXCEPT !.element = element]
        /\ exc' = r.exc
        /\ ret' = r.ret
        /\ queue' = r.self.queue
        /\ maxlen' = r.self.maxlen
        /\ hist' = IF r.exc = "none"
                   THEN Append(hist, Event("enqueue", element, queue)) ELSE hist
        /\ UNCHANGED <<cls, stack>>

\* q.dequeue()
CallDequeue ==
    LET r == Queue_dequeue(QueueSelf)
    IN  /\ cls = "Queue"
        /\ r.exc = "none" => Len(hist) < MaxHist
        /\ op' = "dequeue"
        /\ arg' = NoArgs
        /\ exc' = r.exc
        /\ ret' = r.ret
        /\ queue' = r.self.queue
        /\ maxlen' = r.self.maxlen
        /\ hist' = IF r.exc = "none"
                   THEN Append(hist, Event("dequeue", r.ret, queue)) ELSE hist
        /\ UNCHANGED <<cls, stack>>

\* q.first()
CallFirst ==
    LET r == Queue_first(QueueSelf)
    IN  /\ cls = "Queue"
        /\ op' = "first"
        /\ arg' = NoArgs
        /\ exc' = r.exc
        /\ ret' = r.ret
        /\ queue' = r.self.queue
        /\ maxlen' = r.self.maxlen
        /\ UNCHANGED <<cls, stack, hist>>

\* q[index]
CallQueueGetitem(index) ==
    LET r == Queue_getitem(QueueSelf, index)
    IN  /\ cls = "Queue"
        /\ op' = "Queue.__getitem__"
        /\ arg' = [NoArgs EXCEPT !.index = index]
        /\ exc' = r.exc
        /\ ret' = r.ret
        /\ queue' = r.self.queue
        /\ maxlen' = r.self.maxlen
        /\ UNCHANGED <<cls, stack, hist>>

\* q.empty()
CallQueueEmpty ==
    /\ cls = "Queue"
    /\ op' = "Queue.empty"
    /\ arg' = NoArgs
    /\ exc' = "none"
    /\ ret' = PyBool(Queue_empty(QueueSelf))
    /\ UNCHANGED <<cls, queue, stack, maxlen, hist>>

\* len(q)
CallQueueLen ==
    /\ cls = "Queue"
    /\ op' = "Queue.__len__"
    /\ arg' = NoArgs
    /\ exc' = "none"
    /\ ret' = PyInt(Queue_len(QueueSelf))
    /\ UNCHANGED <<cls, queue, stack, maxlen, hist>>

\* it = iter(q); next(it) until it raises: ret is the list of the items
\* yielded, exc the exception of the last next(it)
CallQueueIter ==
    /\ cls = "Queue"
    /\ op' = "Queue.__iter__"
    /\ arg' = NoArgs
    /\ exc' = "StopIteration"
    /\ ret' = PyList(Queue_iter(QueueSelf))
    /\ UNCHANGED <<cls, queue, stack, maxlen, hist>>

(***************************************************************************)
(* Calls on class Stack.                                                   *)
(***************************************************************************)
\* s = Stack(m): there is a stack only when the constructor returns
CallStackInit(m) ==
    LET r == Stack_init(m)
    IN  /\ op = "none"
        /\ op' = "Stack.__init__"
        /\ arg' = [NoArgs EXCEPT !.maxlen = m]
        /\ exc' = r.exc
        /\ ret' = None
        /\ IF r.exc = "none"
           THEN /\ cls' = "Stack"
                /\ stack' = r.self.stack
                /\ maxlen' = r.self.maxlen
                /\ queue' = <<>>
                /\ hist' = <<>>
           ELSE UNCHANGED <<cls, queue, stack, maxlen, hist>>

\* s = Stack.from_iterable(S, m)
CallStackFromIterable(S, m) ==
    LET r == Stack_from_iterable(S, m)
    IN  /\ op = "none"
        /\ op' = "Stack.from_iterable"
        /\ arg' = [NoArgs EXCEPT !.iterable = S, !.maxlen = m]
        /\ exc' = r.exc
        /\ ret' = None
        /\ IF r.exc = "none"
           THEN /\ cls' = "Stack"
                /\ stack' = r.self.stack
                /\ maxlen' = r.self.maxlen
                /\ queue' = <<>>
                /\ hist' = Events("push", r.done)
           ELSE UNCHANGED <<cls, queue, stack, maxlen, hist>>

\* s.push(element)
CallPush(element) ==
    LET r == Stack_push(StackSelf, element)
    IN  /\ cls = "Stack"
        /\ r.exc = "none" => Len(hist) < MaxHist
        /\ op' = "push"
        /\ arg' = [NoArgs EXCEPT !.element = element]
        /\ exc' = r.exc
        /\ ret' = r.ret
        /\ stack' = r.self.stack
        /\ maxlen' = r.self.maxlen
        /\ hist' = IF r.exc = "none"
                   THEN Append(hist, Event("push", element, stack)) ELSE hist
        /\ UNCHANGED <<cls, queue>>

\* s.pop()
CallPop ==
    LET r == Stack_pop(StackSelf)
    IN  /\ cls = "Stack"
        /\ r.exc = "none" => Len(hist) < MaxHist
        /\ op' = "pop"
        /\ arg' = NoArgs
        /\ exc' = r.exc
        /\ ret' = r.ret
        /\ stack' = r.self.stack
        /\ maxlen' = r.self.maxlen
        /\ hist' = IF r.exc = "none"
                   THEN Append(hist, Event("pop", r.ret, stack)) ELSE hist
        /\ UNCHANGED <<cls, queue>>

\* s.peak()
CallPeak ==
    LET r == Stack_peak(StackSelf)
    IN  /\ cls = "Stack"
        /\ op' = "peak"
        /\ arg' = NoArgs
        /\ exc' = r.exc
        /\ ret' = r.ret
        /\ stack' = r.self.stack
        /\ maxlen' = r.self.maxlen
        /\ UNCHANGED <<cls, queue, hist>>

\* s[index]
CallStackGetitem(index) ==
    LET r == Stack_getitem(StackSelf, index)
    IN  /\ cls = "Stack"
        /\ op' = "Stack.__getitem__"
        /\ arg' = [NoArgs EXCEPT !.index = index]
        /\ exc' = r.exc
        /\ ret' = r.ret
        /\ stack' = r.self.stack
        /\ maxlen' = r.self.maxlen
        /\ UNCHANGED <<cls, queue, hist>>

\* s.empty()
CallStackEmpty ==
    /\ cls = "Stack"
    /\ op' = "Stack.empty"
    /\ arg' = NoArgs
    /\ exc' = "none"
    /\ ret' = PyBool(Stack_empty(StackSelf))
    /\ UNCHANGED <<cls, queue, stack, maxlen, hist>>

\* len(s)
CallStackLen ==
    /\ cls = "Stack"
    /\ op' = "Stack.__len__"
    /\ arg' = NoArgs
    /\ exc' = "none"
    /\ ret' = PyInt(Stack_len(StackSelf))
    /\ UNCHANGED <<cls, queue, stack, maxlen, hist>>

\* it = iter(s); next(it) until it raises: ret is the list of the items
\* yielded, exc the exception of the last next(it)
CallStackIter ==
    /\ cls = "Stack"
    /\ op' = "Stack.__iter__"
    /\ arg' = NoArgs
    /\ exc' = "StopIteration"
    /\ ret' = PyList(Stack_iter(StackSelf))
    /\ UNCHANGED <<cls, queue, stack, maxlen, hist>>

(***************************************************************************)
(* Calls on class PriorityQueue.                                           *)
(***************************************************************************)
\* pq = PriorityQueue(m)
CallPriorityQueueInit(m) ==
    LET r == PriorityQueue_init(m)
    IN  /\ op = "none"
        /\ op' = "PriorityQueue.__init__"
        /\ arg' = [NoArgs EXCEPT !.maxlen = m]
        /\ exc' = r.exc
        /\ ret' = None
        /\ IF r.exc = "none"
           THEN /\ cls' = "PriorityQueue"
                /\ queue' = r.self.queue
                /\ maxlen' = r.self.maxlen
                /\ stack' = <<>>
                /\ hist' = <<>>
           ELSE UNCHANGED <<cls, queue, stack, maxlen, hist>>

\* pq = PriorityQueue.from_iterable(S, m), S a list of (element, priority)
CallPriorityQueueFromIterable(S, m) ==
    LET r == PriorityQueue_from_iterable(S, m)
    IN  /\ op = "none"
        /\ op' = "PriorityQueue.from_iterable"
        /\ arg' = [NoArgs EXCEPT !.iterable = S, !.maxlen = m]
        /\ exc' = r.exc
        /\ ret' = None
        /\ IF r.exc = "none"
           THEN /\ cls' = "PriorityQueue"
                /\ queue' = r.self.queue
                /\ maxlen' = r.self.maxlen
                /\ stack' = <<>>
                /\ hist' = <<>>
           ELSE UNCHANGED <<cls, queue, stack, maxlen, hist>>

(***************************************************************************)
(* Calls on class ListQueue.                                               *)
(***************************************************************************)
\* lq = ListQueue(S), S a list or None; the history starts with the elements
\* it was given
CallListQueueInit(S) ==
    LET r == ListQueue_init(S)
    IN  /\ op = "none"
        /\ op' = "ListQueue.__init__"
        /\ arg' = [NoArgs EXCEPT !.iterable = r.self.queue]
        /\ exc' = r.exc
        /\ ret' = None
        /\ cls' = "ListQueue"
        /\ queue' = r.self.queue
        /\ hist' = Events("ListQueue.__init__", r.self.queue)
        /\ UNCHANGED <<stack, maxlen>>

\* lq.enqueue(element)
CallListQueueEnqueue(element) ==
    LET r == ListQueue_enqueue(ListQueueSelf, element)
    IN  /\ cls = "ListQueue"
        /\ Len(hist) < MaxHist
        /\ op' = "ListQueue.enqueue"
        /\ arg' = [NoArgs EXCEPT !.element = element]
        /\ exc' = r.exc
        /\ ret' = r.ret
        /\ queue' = r.self.queue
        /\ hist' = Append(hist, Event("ListQueue.enqueue", element, queue))
        /\ UNCHANGED <<cls, stack, maxlen>>

\* lq.dequeue()
CallListQueueDequeue ==
    LET r == ListQueue_dequeue(ListQueueSelf)
    IN  /\ cls = "ListQueue"
        /\ r.exc = "none" => Len(hist) < MaxHist
        /\ op' = "ListQueue.dequeue"
        /\ arg' = NoArgs
        /\ exc' = r.exc
        /\ ret' = r.ret
        /\ queue' = r.self.queue
        /\ hist' = IF r.exc = "none"
                   THEN Append(hist, Event("ListQueue.dequeue", r.ret, queue))
                   ELSE hist
        /\ UNCHANGED <<cls, stack, maxlen>>

\* lq.first
CallListQueueFirst ==
    LET r == ListQueue_first(ListQueueSelf)
    IN  /\ cls = "ListQueue"
        /\ op' = "ListQueue.first"
        /\ arg' = NoArgs
        /\ exc' = r.exc
        /\ ret' = r.ret
        /\ queue' = r.self.queue
        /\ UNCHANGED <<cls, stack, maxlen, hist>>

\* lq.is_empty
CallListQueueIsEmpty ==
    /\ cls = "ListQueue"
    /\ op' = "ListQueue.is_empty"
    /\ arg' = NoArgs
    /\ exc' = "none"
    /\ ret' = PyBool(ListQueue_is_empty(ListQueueSelf))
    /\ UNCHANGED <<cls, queue, stack, maxlen, hist>>

\* len(lq)
CallListQueueLen ==
    /\ cls = "ListQueue"
    /\ op' = "ListQueue.__len__"
    /\ arg' = NoArgs
    /\ exc' = "none"
    /\ ret' = PyInt(ListQueue_len(ListQueueSelf))
    /\ UNCHANGED <<cls, queue, stack, maxlen, hist>>

\* reversed(lq): returns a new ListQueue, val of ret is its _queue
CallListQueueReversed ==
    LET r == ListQueue_reversed(ListQueueSelf)
    IN  /\ cls = "ListQueue"
        /\ op' = "ListQueue.__reversed__"
        /\ arg' = NoArgs
        /\ exc' = r.exc
        /\ ret' = [type |-> "ListQueue", val |-> r.self.queue]
        /\ UNCHANGED <<cls, queue, stack, maxlen, hist>>

(***************************************************************************)
(* Truth value of a Queue or a Stack.                                      *)
(***************************************************************************)
\* bool(q)
CallQueueBool ==
    /\ cls = "Queue"
    /\ op' = "Queue.__bool__"
    /\ arg' = NoArgs
    /\ exc' = "none"
    /\ ret' = PyBool(Queue_bool(QueueSelf))
    /\ UNCHANGED <<cls, queue, stack, maxlen, hist>>

\* bool(s)
CallStackBool ==
    /\ cls = "Stack"
    /\ op' = "Stack.__bool__"
    /\ arg' = NoArgs
    /\ exc' = "none"
    /\ ret' = PyBool(Stack_bool(StackSelf))
    /\ UNCHANGED <<cls, queue, stack, maxlen, hist>>

(***************************************************************************)
(* Comparisons of a Queue or a Stack with a list or with another container *)
(* of its class.                                                           *)
(***************************************************************************)
\* Queue.from_iterable(S) as an operand: a Queue with contents val
OtherQueue(S) ==
    [type |-> "Queue", val |-> Queue_from_iterable(S, None).self.queue]

\* Stack.from_iterable(S) as an operand: a Stack with contents val
OtherStack(S) ==
    [type |-> "Stack", val |-> Stack_from_iterable(S, None).self.stack]

\* q == other, other a list
CallQueueEq(other) ==
    /\ cls = "Queue"
    /\ op' = "Queue.__eq__"
    /\ arg' = [NoArgs EXCEPT !.other = other]
    /\ exc' = "none"
    /\ ret' = PyBool(Queue_eq(QueueSelf, other))
    /\ UNCHANGED <<cls, queue, stack, maxlen, hist>>

\* q < other, other a Queue
CallQueueLt(other) ==
    /\ cls = "Queue"
    /\ op' = "Queue.__lt__"
    /\ arg' = [NoArgs EXCEPT !.other = other]
    /\ exc' = "none"
    /\ ret' = PyBool(Queue_lt(QueueSelf, other))
    /\ UNCHANGED <<cls, queue, stack, maxlen, hist>>

\* q >= other, other a Queue
CallQueueGe(other) ==
    /\ cls = "Queue"
    /\ op' = "Queue.__ge__"
    /\ arg' = [NoArgs EXCEPT !.other = other]
    /\ exc' = "none"
    /\ ret' = PyBool(Queue_ge(QueueSelf, other))
    /\ UNCHANGED <<cls, queue, stack, maxlen, hist>>

\* s == other, other a list
CallStackEq(other) ==
    /\ cls = "Stack"
    /\ op' = "Stack.__eq__"
    /\ arg' = [NoArgs EXCEPT !.other = other]
    /\ exc' = "none"
    /\ ret' = PyBool(Stack_eq(StackSelf, other))
    /\ UNCHANGED <<cls, queue, stack, maxlen, hist>>

\* s < other, other a Stack
CallStackLt(other) ==
    /\ cls = "Stack"
    /\ op' = "Stack.__lt__"
    /\ arg' = [NoArgs EXCEPT !.other = other]
    /\ exc' = "none"
    /\ ret' = PyBool(Stack_lt(StackSelf, other))
    /\ UNCHANGED <<cls, queue, stack, maxlen, hist>>

\* s >= other, other a Stack
CallStackGe(other) ==
    /\ cls = "Stack"
    /\ op' = "Stack.__ge__"
    /\ arg' = [NoArgs EXCEPT !.other = other]
    /\ exc' = "none"
    /\ ret' = PyBool(Stack_ge(StackSelf, other))
    /\ UNCHANGED <<cls, queue, stack, maxlen, hist>>

(***************************************************************************)
(* The caller makes any call at any time.                                  *)
(***************************************************************************)
\* a constructor is the first call of a behaviour: the constructors that
\* take an iterable are tried only then
Next ==
    \/ \E m \in MaxlenArgs : CallQueueInit(m)
    \/ op = "none" /\ \E S \in Iterables, m \in MaxlenArgs :
           CallQueueFromIterable(S, m)
    \/ \E e \in Elems : CallEnqueue(e)
    \/ CallDequeue
    \/ CallFirst
    \/ \E i \in Indices : CallQueueGetitem(i)
    \/ CallQueueEmpty
    \/ CallQueueLen
    \/ CallQueueIter
    \/ \E m \in MaxlenArgs : CallStackInit(m)
    \/ op = "none" /\ \E S \in Iterables, m \in MaxlenArgs :
           CallStackFromIterable(S, m)
    \/ \E e \in Elems : CallPush(e)
    \/ CallPop
    \/ CallPeak
    \/ \E i \in Indices : CallStackGetitem(i)
    \/ CallStackEmpty
    \/ CallStackLen
    \/ CallStackIter
    \/ \E m \in MaxlenArgs : CallPriorityQueueInit(m)
    \/ op = "none" /\ \E S \in PairIterables, m \in {None, PyInt(MaxCap)} :
           CallPriorityQueueFromIterable(S, m)
    \/ op = "none" /\ \E S \in Iterables : CallListQueueInit(PyList(S))
    \/ CallListQueueInit(None)
    \/ \E e \in Elems : CallListQueueEnqueue(e)
    \/ CallListQueueDequeue
    \/ CallListQueueFirst
    \/ CallListQueueIsEmpty
    \/ CallListQueueLen
    \/ CallListQueueReversed

Spec == Init /\ [][Next]_vars

\* comparisons read the contents only: they are explored on the containers
\* from_iterable builds, which have every contents
NextCompare ==
    \/ \E S \in CompareArgs : CallQueueFromIterable(S, None)
    \/ \E S \in CompareArgs : CallStackFromIterable(S, None)
    \/ \E S \in CompareArgs : CallQueueEq(PyList(S))
    \/ \E S \in CompareArgs : CallQueueLt(OtherQueue(S))
    \/ \E S \in CompareArgs : CallQueueGe(OtherQueue(S))
    \/ \E S \in CompareArgs : CallStackEq(PyList(S))
    \/ \E S \in CompareArgs : CallStackLt(OtherStack(S))
    \/ \E S \in CompareArgs : CallStackGe(OtherStack(S))

SpecCompare == Init /\ [][NextCompare]_vars

\* the operands the comparisons are tried with when they are mixed with the
\* other calls: the empty one and those of one element
FrameArgs == {<<>>} \cup {<<e>> : e \in Elems}

\* every public operation of Queue and Stack, the comparisons and bool
\* included, called in any order on one container
NextFrame ==
    \/ \E m \in MaxlenArgs : CallQueueInit(m)
    \/ op = "none" /\ \E S \in Iterables, m \in MaxlenArgs :
           CallQueueFromIterable(S, m)
    \/ \E e \in Elems : CallEnqueue(e)
    \/ CallDequeue
    \/ CallFirst
    \/ \E i \in Indices : CallQueueGetitem(i)
    \/ CallQueueEmpty
    \/ CallQueueLen
    \/ CallQueueBool
    \/ CallQueueIter
    \/ \E S \in FrameArgs : CallQueueEq(PyList(S))
    \/ \E S \in FrameArgs : CallQueueLt(OtherQueue(S))
    \/ \E S \in FrameArgs : CallQueueGe(OtherQueue(S))
    \/ \E m \in MaxlenArgs : CallStackInit(m)
    \/ op = "none" /\ \E S \in Iterables, m \in MaxlenArgs :
           CallStackFromIterable(S, m)
    \/ \E e \in Elems : CallPush(e)
    \/ CallPop
    \/ CallPeak
    \/ \E i \in Indices : CallStackGetitem(i)
    \/ CallStackEmpty
    \/ CallStackLen
    \/ CallStackBool
    \/ CallStackIter
    \/ \E S \in FrameArgs : CallStackEq(PyList(S))
    \/ \E S \in FrameArgs : CallStackLt(OtherStack(S))
    \/ \E S \in FrameArgs : CallStackGe(OtherStack(S))

SpecFrame == Init /\ [][NextFrame]_vars

(***************************************************************************)
(* Properties.                                                             *)
(***************************************************************************)
\* the values of the history entries of the calls named name, in call order
RECURSIVE ValuesOf(_, _)
ValuesOf(name, h) ==
    IF h = <<>> THEN <<>>
    ELSE IF Head(h).op = name THEN <<Head(h).val>> \o ValuesOf(name, Tail(h))
         ELSE ValuesOf(name, Tail(h))

Enqueued == ValuesOf("enqueue", hist)

Dequeued == ValuesOf("dequeue", hist)

\* C1: Queue is FIFO.  At any point of any interleaving of enqueue and
\* dequeue calls that returned, the k-th dequeue has returned the k-th
\* enqueued element, and the contents are the enqueued elements not yet
\* dequeued, in enqueue order.
QueueIsFIFO ==
    cls = "Queue" =>
        /\ Len(Dequeued) <= Len(Enqueued)
        /\ \A k \in 1..Len(Dequeued) : Dequeued[k] = Enqueued[k]
        /\ queue = SubSeq(Enqueued, Len(Dequeued) + 1, Len(Enqueued))

\* C1 witness: a bounded queue on which an enqueue follows a dequeue: two
\* different elements were enqueued, the first of them has been dequeued
\* and two elements are queued
QueueIsFIFOWitness ==
    /\ cls = "Queue"
    /\ maxlen # None
    /\ Len(Enqueued) = 3
    /\ Enqueued[1] # Enqueued[2]
    /\ Dequeued = <<Enqueued[1]>>
    /\ Len(queue) = 2
    /\ \E i \in 1..(Len(hist) - 1) :
           hist[i].op = "dequeue" /\ hist[i + 1].op = "enqueue"

\* the pushed elements not yet popped after the history h, in push order,
\* when each pop takes the latest of them
RECURSIVE Unpopped(_)
Unpopped(h) ==
    IF h = <<>> THEN <<>>
    ELSE LET before == Unpopped(SubSeq(h, 1, Len(h) - 1))
             last == h[Len(h)]
         IN  IF last.op = "push" THEN Append(before, last.val)
             ELSE SubSeq(before, 1, Len(before) - 1)

\* C2: Stack is LIFO.  Every pop that returned has returned the most
\* recently pushed element not yet popped, and the contents are the earlier
\* pushed, unpopped elements in push order.
StackIsLIFO ==
    cls = "Stack" =>
        /\ \A i \in 1..Len(hist) :
               hist[i].op = "pop" =>
                   LET before == Unpopped(SubSeq(hist, 1, i - 1))
                   IN  /\ before # <<>>
                       /\ hist[i].val = before[Len(before)]
        /\ stack = Unpopped(hist)

\* C2 witness: push a, push b (b # a), pop, push: a push after the pop
\* that returned b, two elements left
StackIsLIFOWitness ==
    /\ cls = "Stack"
    /\ Len(hist) = 4
    /\ hist[1].op = "push"
    /\ hist[2].op = "push"
    /\ hist[1].val # hist[2].val
    /\ hist[3].op = "pop"
    /\ hist[3].val = hist[2].val
    /\ hist[4].op = "push"
    /\ Len(stack) = 2

\* C3: Queue capacity invariant.  A Queue whose maxlen is an integer >= 0
\* never holds more than maxlen elements, whatever calls were made on it,
\* failed ones included.
QueueCapacityInvariant ==
    (cls = "Queue" /\ maxlen.type = "int" /\ maxlen.val >= 0) =>
        Len(queue) <= maxlen.val

\* C3 witness: a queue of capacity >= 1 filled by enqueue calls, on which a
\* further enqueue has just failed
QueueCapacityWitness ==
    /\ cls = "Queue"
    /\ maxlen.type = "int"
    /\ maxlen.val >= 1
    /\ Len(queue) = maxlen.val
    /\ op = "enqueue"
    /\ exc = "QueueError"

\* C4: Stack capacity invariant.  A Stack whose maxlen is an integer >= 0,
\* zero included, never holds more than maxlen elements.
StackCapacityInvariant ==
    (cls = "Stack" /\ maxlen.type = "int" /\ maxlen.val >= 0) =>
        Len(stack) <= maxlen.val

\* C5: Queue.enqueue on a queue whose maxlen is an integer >= 0 and which
\* holds maxlen elements raises QueueError and changes neither the contents
\* nor maxlen; on a queue holding fewer than maxlen elements, or on an
\* unbounded queue, it returns and the element is the new rear.
EnqueueContract ==
    [][(cls = "Queue" /\ op' = "enqueue") =>
          /\ (maxlen.type = "int" /\ maxlen.val >= 0
                  /\ Len(queue) = maxlen.val) =>
                 (exc' = "QueueError" /\ queue' = queue /\ maxlen' = maxlen)
          /\ (maxlen = None
                  \/ (maxlen.type = "int" /\ Len(queue) < maxlen.val)) =>
                 /\ exc' = "none"
                 /\ queue' = Append(queue, arg'.element)
                 /\ maxlen' = maxlen]_vars

\* C5 witness: enqueue rejected by a queue of capacity zero
EnqueueContractWitness ==
    /\ cls = "Queue"
    /\ maxlen = PyInt(0)
    /\ queue = <<>>
    /\ op = "enqueue"
    /\ exc = "QueueError"

\* C6: Stack.push on a stack whose maxlen is an integer c >= 0 and which
\* holds c elements raises StackError and leaves the contents unchanged; in
\* particular every push on a Stack made with maxlen 0 is rejected.
PushContract ==
    [][(cls = "Stack" /\ op' = "push" /\ maxlen.type = "int"
            /\ maxlen.val >= 0 /\ Len(stack) = maxlen.val) =>
          (exc' = "StackError" /\ stack' = stack)]_vars

\* C7: removal from an empty container fails without mutation.  dequeue on
\* an empty Queue raises QueueError, pop on an empty Stack raises
\* StackError, and the container is still empty with the same maxlen;
\* removal from a non-empty container never raises.
RemovalFromEmptyFails ==
    [][/\ (cls = "Queue" /\ op' = "dequeue") =>
              IF queue = <<>>
              THEN exc' = "QueueError" /\ queue' = <<>> /\ maxlen' = maxlen
              ELSE exc' = "none"
       /\ (cls = "Stack" /\ op' = "pop") =>
              IF stack = <<>>
              THEN exc' = "StackError" /\ stack' = <<>> /\ maxlen' = maxlen
              ELSE exc' = "none"]_vars

\* C7 witness: pop has just failed on a stack that was filled and emptied
RemovalFromEmptyWitness ==
    /\ cls = "Stack"
    /\ op = "pop"
    /\ exc = "StackError"
    /\ stack = <<>>
    /\ hist # <<>>

\* C8: Queue.first() never fails.  On an empty Queue it returns None and
\* the queue stays empty.
FirstNeverFails ==
    [][(cls = "Queue" /\ op' = "first") =>
          /\ exc' = "none"
          /\ queue = <<>> => (ret' = None /\ queue' = <<>>)]_vars

\* C9: peek agrees with removal.  On a non-empty container first() returns
\* queue[0] and peak() returns stack[-1] and neither changes the contents;
\* dequeue() / pop() called in that state returns that same element, so a
\* removal straight after a peek returns what the peek returned.
PeekAgreesWithRemoval ==
    [][/\ (cls = "Queue" /\ queue # <<>>) =>
              /\ op' = "first" =>
                     /\ exc' = "none"
                     /\ ret' = queue[1]
                     /\ ret' = Queue_getitem(QueueSelf, 0).ret
                     /\ queue' = queue
              /\ op' = "dequeue" => (exc' = "none" /\ ret' = queue[1])
              /\ (op = "first" /\ op' = "dequeue") => ret' = ret
       /\ (cls = "Stack" /\ stack # <<>>) =>
              /\ op' = "peak" =>
                     /\ exc' = "none"
                     /\ ret' = stack[Len(stack)]
                     /\ ret' = Stack_getitem(StackSelf, -1).ret
                     /\ stack' = stack
              /\ op' = "pop" => (exc' = "none" /\ ret' = stack[Len(stack)])
              /\ (op = "peak" /\ op' = "pop") => ret' = ret]_vars

\* C9 witness: peak has just returned the top of a stack whose top differs
\* from its bottom
PeekAgreesWitness ==
    /\ cls = "Stack"
    /\ op = "peak"
    /\ exc = "none"
    /\ Len(stack) >= 2
    /\ stack[1] # stack[Len(stack)]
    /\ ret = stack[Len(stack)]

\* the contents of the container, whatever its class
contents == IF cls = "Queue" THEN queue ELSE stack

\* S cut to capacity c: S when c is None or c >= len(S), else S[:c]
Truncated(S, c) ==
    IF c = None \/ c.val >= Len(S) THEN S ELSE SubSeq(S, 1, c.val)

\* C10: construction from a sequence truncates silently.  For a finite
\* sequence S and a maxlen c that is None or an integer >= 0,
\* Queue.from_iterable(S, c) and Stack.from_iterable(S, c) return a container
\* of the class whose contents are S when c is None or c >= len(S), and
\* the first c elements of S when len(S) > c, with maxlen c.
FromIterableTruncates ==
    (/\ op \in {"Queue.from_iterable", "Stack.from_iterable"}
     /\ (arg.maxlen = None \/ (arg.maxlen.type = "int" /\ arg.maxlen.val >= 0)))
    => /\ exc = "none"
       /\ cls = IF op = "Queue.from_iterable" THEN "Queue" ELSE "Stack"
       /\ contents = Truncated(arg.iterable, arg.maxlen)
       /\ maxlen = arg.maxlen

\* C10 witness: Queue.from_iterable has cut a longer sequence to a capacity
\* of at least one
FromIterableWitness ==
    /\ op = "Queue.from_iterable"
    /\ exc = "none"
    /\ arg.maxlen.type = "int"
    /\ arg.maxlen.val >= 1
    /\ Len(arg.iterable) > arg.maxlen.val
    /\ queue = SubSeq(arg.iterable, 1, arg.maxlen.val)

\* C11: capacity validation at construction.  Queue(maxlen) and
\* Stack(maxlen) raise TypeError for every maxlen that is neither None nor
\* an integer, whatever its value, and ValueError for every negative
\* integer; None and integers >= 0 give a container, which is empty.
CapacityValidation ==
    op \in {"Queue.__init__", "Stack.__init__"} =>
        /\ arg.maxlen.type \notin {"NoneType", "int"} => exc = "TypeError"
        /\ (arg.maxlen.type = "int" /\ arg.maxlen.val < 0) =>
               exc = "ValueError"
        /\ (arg.maxlen = None
                \/ (arg.maxlen.type = "int" /\ arg.maxlen.val >= 0)) =>
               /\ exc = "none"
               /\ cls = IF op = "Queue.__init__" THEN "Queue" ELSE "Stack"
               /\ contents = <<>>
               /\ maxlen = arg.maxlen

\* the history ends with n calls of insert followed by n calls of remove
EndsWithRoundTrip(n, insert, remove) ==
    /\ Len(hist) >= 2 * n
    /\ \A i \in 1..n :
           /\ hist[Len(hist) - 2 * n + i].op = insert
           /\ hist[Len(hist) - n + i].op = remove

\* the contents found by the first call of a round trip of n insertions
BeforeRoundTrip(n) == hist[Len(hist) - 2 * n + 1].pre

\* the elements inserted by a round trip of n insertions, in call order
InsertedByRoundTrip(n) ==
    [i \in 1..n |-> hist[Len(hist) - 2 * n + i].val]

\* C12: Stack round-trip.  From a Stack with contents C, n pushes followed
\* by n pops leave the contents equal to C, and the pops return the pushed
\* values in reverse push order.
StackRoundTrip ==
    cls = "Stack" =>
        \A n \in 1..MaxHist :
            EndsWithRoundTrip(n, "push", "pop") =>
                /\ stack = BeforeRoundTrip(n)
                /\ \A i \in 1..n :
                       hist[Len(hist) - n + i].val =
                           InsertedByRoundTrip(n)[n + 1 - i]

\* C12 witness: a round trip has just ended on a stack that was not empty
\* when it started
StackRoundTripWitness ==
    /\ cls = "Stack"
    /\ \E n \in 1..MaxHist :
           /\ EndsWithRoundTrip(n, "push", "pop")
           /\ BeforeRoundTrip(n) # <<>>
           /\ InsertedByRoundTrip(n)[1] # BeforeRoundTrip(n)[1]
           /\ stack = BeforeRoundTrip(n)

\* C13 as claimed: from a Queue with contents C, empty or not, n enqueues
\* followed by n dequeues leave the contents equal to C.
QueueRoundTripRestores ==
    cls = "Queue" =>
        \A n \in 1..MaxHist :
            EndsWithRoundTrip(n, "enqueue", "dequeue") =>
                queue = BeforeRoundTrip(n)

\* C13 amended: n enqueues followed by n dequeues remove the n oldest of
\* the elements of C followed by the enqueued ones and leave the rest, in
\* order; the contents equal C again when C is empty.
QueueRoundTripShifts ==
    cls = "Queue" =>
        \A n \in 1..MaxHist :
            EndsWithRoundTrip(n, "enqueue", "dequeue") =>
                LET all == BeforeRoundTrip(n) \o InsertedByRoundTrip(n)
                IN  /\ queue = SubSeq(all, n + 1, Len(all))
                    /\ BeforeRoundTrip(n) = <<>> => queue = <<>>

\* C13 witness: a round trip has just ended on a queue that was not empty
\* when it started and now holds the enqueued element instead
QueueRoundTripWitness ==
    /\ cls = "Queue"
    /\ EndsWithRoundTrip(1, "enqueue", "dequeue")
    /\ Len(BeforeRoundTrip(1)) = 1
    /\ queue = InsertedByRoundTrip(1)
    /\ queue # BeforeRoundTrip(1)

\* the entries of pairs with priority p, in their order in pairs
RECURSIVE WithPriority(_, _)
WithPriority(p, pairs) ==
    IF pairs = <<>> THEN <<>>
    ELSE IF Head(pairs)[2].val = p
         THEN <<Head(pairs)[1]>> \o WithPriority(p, Tail(pairs))
         ELSE WithPriority(p, Tail(pairs))

\* the elements of pairs by non-decreasing priority, equal priorities in
\* insertion order
RECURSIVE InPriorityOrder(_, _)
InPriorityOrder(pairs, prios) ==
    IF prios = {} THEN <<>>
    ELSE LET least == CHOOSE p \in prios : \A q \in prios : p <= q
         IN  WithPriority(least, pairs)
                 \o InPriorityOrder(pairs, prios \ {least})

\* every priority of pairs is an integer
IntegerPriorities(pairs) ==
    \A i \in 1..Len(pairs) : pairs[i][2].type = "int"

\* C14: PriorityQueue removal order.  After the insertion of any sequence
\* of (element, priority) entries with integer priorities, the queue hands
\* out the elements by non-decreasing priority, equal priorities in
\* insertion order: (a,5), (b,1), (c,5) come out as b, a, c.
PriorityRemovalOrder ==
    (op = "PriorityQueue.from_iterable" /\ IntegerPriorities(arg.iterable)) =>
        /\ exc = "none"
        /\ cls = "PriorityQueue"
        /\ queue = InPriorityOrder(arg.iterable,
                       {arg.iterable[i][2].val : i \in 1..Len(arg.iterable)})

\* C15: PriorityQueue construction.  PriorityQueue(maxlen) with maxlen None
\* or an integer >= 0 returns an empty container, and
\* PriorityQueue.from_iterable(pairs) returns a container holding the entries.
PriorityQueueConstructs ==
    /\ (/\ op = "PriorityQueue.__init__"
        /\ (arg.maxlen = None
                \/ (arg.maxlen.type = "int" /\ arg.maxlen.val >= 0))) =>
           /\ exc = "none"
           /\ cls = "PriorityQueue"
           /\ queue = <<>>
    /\ (op = "PriorityQueue.from_iterable"
            /\ IntegerPriorities(arg.iterable)) =>
           /\ exc = "none"
           /\ cls = "PriorityQueue"
           /\ Len(queue) = Len(arg.iterable)

\* C16: ListQueue.dequeue on a non-empty ListQueue deletes the first
\* element and returns it; on an empty ListQueue it raises IndexError and
\* the queue stays empty.
ListQueueDequeueReturns ==
    [][(cls = "ListQueue" /\ op' = "ListQueue.dequeue") =>
          IF queue # <<>>
          THEN exc' = "none" /\ queue' = Tail(queue) /\ ret' = Head(queue)
          ELSE exc' = "IndexError" /\ queue' = <<>>]_vars

\* C17: comparison is structural.  For Queue and Stack, container == L is
\* True exactly when the contents equal the list L element by element; an
\* empty container is < any container from_iterable built from a non-empty
\* sequence, and that one is >= the empty one; no comparison changes the
\* container or raises.
ComparisonIsStructural ==
    [][/\ op' \in {"Queue.__eq__", "Stack.__eq__"} =>
              ret' = PyBool(contents = arg'.other.val)
       /\ (/\ op' \in {"Queue.__lt__", "Stack.__lt__"}
           /\ contents = <<>> /\ arg'.other.val # <<>>) =>
              ret' = PyBool(TRUE)
       /\ (/\ op' \in {"Queue.__ge__", "Stack.__ge__"}
           /\ contents # <<>> /\ arg'.other.val = <<>>) =>
              ret' = PyBool(TRUE)
       /\ op' \in {"Queue.__eq__", "Stack.__eq__", "Queue.__lt__",
                   "Stack.__lt__", "Queue.__ge__", "Stack.__ge__"} =>
              (exc' = "none" /\ contents' = contents /\ maxlen' = maxlen)]_vars

\* C17 witness: a Queue of two different elements has just compared equal
\* to the list of the same two elements
ComparisonWitness ==
    /\ cls = "Queue"
    /\ op = "Queue.__eq__"
    /\ Len(queue) = 2
    /\ queue[1] # queue[2]
    /\ arg.other = PyList(queue)
    /\ ret = PyBool(TRUE)

\* C18: iterating a Queue or a Stack with contents C yields the elements
\* of C, each once and in stored order, signals StopIteration after len(C)
\* items, and leaves the contents as they were.
IterationYieldsContents ==
    [][op' \in {"Queue.__iter__", "Stack.__iter__"} =>
           /\ Len(ret'.val) = Len(contents)
           /\ \A i \in 1..Len(contents) : ret'.val[i] = contents[i]
           /\ exc' = "StopIteration"
           /\ contents' = contents]_vars

\* C18 witness: a Stack of two different elements has been iterated
IterationWitness ==
    /\ cls = "Stack"
    /\ op = "Stack.__iter__"
    /\ Len(stack) = 2
    /\ stack[1] # stack[2]
    /\ ret = PyList(stack)
    /\ exc = "StopIteration"

\* C19: Stack.peak() and ListQueue.first never raise and never change the
\* container; they return None on an empty container, else the tail of the
\* Stack, the head of the ListQueue; a peek repeated at once returns the
\* same value.
PeekReturnsNoneOnEmpty ==
    [][/\ op' = "peak" =>
              /\ exc' = "none"
              /\ stack' = stack /\ maxlen' = maxlen
              /\ ret' = IF stack = <<>> THEN None ELSE stack[Len(stack)]
       /\ op' = "ListQueue.first" =>
              /\ exc' = "none"
              /\ queue' = queue
              /\ ret' = IF queue = <<>> THEN None ELSE queue[1]
       /\ (op' \in {"peak", "ListQueue.first"} /\ op = op') =>
              ret' = ret]_vars

\* C19 witness: first on a ListQueue emptied by dequeue has returned None
PeekOnEmptyWitness ==
    /\ cls = "ListQueue"
    /\ op = "ListQueue.first"
    /\ queue = <<>>
    /\ hist # <<>>
    /\ hist[Len(hist)].op = "ListQueue.dequeue"
    /\ ret = None
    /\ exc = "none"

\* C20: reversed(q) on a ListQueue with contents C returns a ListQueue whose
\* contents are C in reverse order, the empty C included, and reversing the
\* result gives C again.
ReversedReverses ==
    [][op' = "ListQueue.__reversed__" =>
           /\ exc' = "none"
           /\ ret'.type = "ListQueue"
           /\ Len(ret'.val) = Len(queue)
           /\ \A i \in 1..Len(queue) : ret'.val[i] = queue[Len(queue) + 1 - i]
           /\ ListQueue_reversed([queue |-> ret'.val]).self.queue = queue]_vars

\* C20 witness: a ListQueue whose ends differ has been reversed
ReversedWitness ==
    /\ cls = "ListQueue"
    /\ op = "ListQueue.__reversed__"
    /\ Len(queue) >= 2
    /\ queue[1] # queue[Len(queue)]
    /\ ret.val[1] = queue[Len(queue)]

\* maxlen is an integer capacity of at least one
Bounded == isinstance_int(maxlen) /\ maxlen.val >= 1

\* C21: capacity errors are recoverable.  On a Queue with maxlen >= 1, the
\* dequeue that follows an enqueue rejected with QueueError succeeds, and
\* the enqueue that follows a successful dequeue succeeds; the enqueue that
\* follows a dequeue rejected on the empty queue succeeds, and the dequeue
\* that follows a successful enqueue succeeds.  The same for Stack with
\* push and pop and StackError.
CapacityErrorsRecoverable ==
    [][/\ (/\ cls = "Queue" /\ Bounded
           /\ op = "enqueue" /\ exc = "QueueError" /\ op' = "dequeue") =>
              exc' = "none"
       /\ (/\ cls = "Queue" /\ Bounded
           /\ op = "dequeue" /\ exc = "none" /\ op' = "enqueue") =>
              exc' = "none"
       /\ (/\ cls = "Queue" /\ Bounded
           /\ op = "dequeue" /\ exc = "QueueError" /\ op' = "enqueue") =>
              exc' = "none"
       /\ (/\ cls = "Queue" /\ Bounded
           /\ op = "enqueue" /\ exc = "none" /\ op' = "dequeue") =>
              exc' = "none"
       /\ (/\ cls = "Stack" /\ Bounded
           /\ op = "push" /\ exc = "StackError" /\ op' = "pop") =>
              exc' = "none"
       /\ (/\ cls = "Stack" /\ Bounded
           /\ op = "pop" /\ exc = "none" /\ op' = "push") =>
              exc' = "none"
       /\ (/\ cls = "Stack" /\ Bounded
           /\ op = "pop" /\ exc = "StackError" /\ op' = "push") =>
              exc' = "none"
       /\ (/\ cls = "Stack" /\ Bounded
           /\ op = "push" /\ exc = "none" /\ op' = "pop") =>
              exc' = "none"]_vars

\* C21 witness: a bounded Queue that was full has given up an element to
\* dequeue and has then accepted an enqueue, which filled it again
RecoveryWitness ==
    /\ cls = "Queue"
    /\ Bounded
    /\ op = "enqueue"
    /\ exc = "none"
    /\ Len(queue) = maxlen.val
    /\ Len(hist) >= 2
    /\ hist[Len(hist) - 1].op = "dequeue"
    /\ Len(hist[Len(hist) - 1].pre) = maxlen.val
    /\ hist[Len(hist)].op = "enqueue"

\* the constructors of Queue and Stack
Constructors ==
    {"Queue.__init__", "Queue.from_iterable",
     "Stack.__init__", "Stack.from_iterable"}

\* C22: maxlen is fixed at construction.  A Queue or a Stack that a
\* constructor or from_iterable has returned holds the maxlen it was given,
\* and no later call (enqueue/push, dequeue/pop, first/peak, empty, len,
\* bool, comparison, iteration, indexing), returning or raising, changes it.
MaxlenIsFixed ==
    [][/\ (op' \in Constructors /\ exc' = "none") => maxlen' = arg'.maxlen
       /\ cls \in {"Queue", "Stack"} => maxlen' = maxlen]_vars

\* C22 witness: a Stack built with maxlen 1 still has it after a push that
\* returned and a push that was rejected
MaxlenIsFixedWitness ==
    /\ cls = "Stack"
    /\ maxlen = PyInt(1)
    /\ op = "push"
    /\ exc = "StackError"
    /\ Len(hist) = 1
    /\ hist[1].op = "push"

\* the queries of Queue and Stack
Queries ==
    {"Queue.empty", "Queue.__len__", "Queue.__bool__", "Queue.__eq__",
     "Queue.__lt__", "Queue.__getitem__", "first",
     "Stack.empty", "Stack.__len__", "Stack.__bool__", "Stack.__eq__",
     "Stack.__lt__", "Stack.__getitem__", "peak"}

\* C23: for Queue and Stack the queries empty(), len, bool, ==, <, indexing
\* (in range or out of range) and first()/peak() leave the contents as they
\* were, returning or raising; empty() is True exactly when the container
\* has no element, which is when len is 0 and bool is False.
QueriesArePure ==
    [][/\ op' \in Queries => (queue' = queue /\ stack' = stack)
       /\ op' \in {"Queue.empty", "Stack.empty"} =>
              ret' = PyBool(Len(contents) = 0)
       /\ op' \in {"Queue.__len__", "Stack.__len__"} =>
              ret' = PyInt(Len(contents))
       /\ op' \in {"Queue.__bool__", "Stack.__bool__"} =>
              ret' = PyBool(Len(contents) # 0)]_vars

\* C23 witness: indexing a non-empty Stack out of range has raised
\* IndexError after an insertion or removal
QueriesArePureWitness ==
    /\ cls = "Stack"
    /\ op = "Stack.__getitem__"
    /\ exc = "IndexError"
    /\ stack # <<>>
    /\ hist # <<>>

\* C24: PriorityQueue checks the kind of a priority at insertion.
\* from_iterable of entries of which one has a priority that is not an
\* integer raises TypeError and makes no queue; from_iterable of entries
\* with integer priorities returns a queue holding them all.
PriorityKindChecked ==
    (op = "PriorityQueue.from_iterable" /\ arg.iterable # <<>>) =>
        IF IntegerPriorities(arg.iterable)
        THEN /\ exc = "none"
             /\ cls = "PriorityQueue"
             /\ Len(queue) = Len(arg.iterable)
        ELSE /\ exc = "TypeError"
             /\ cls = "none"

=============================================================================
